---- MODULE Spec2Model ----
(***************************************************************************)
(* A model of app.py: the Flask application that streams a video source    *)
(* through a detection model, logs every 30th detection frame with a       *)
(* location, and exposes the log, the GPS slot and the stop flag over      *)
(* HTTP.                                                                   *)
(*                                                                         *)
(* Four specifications share the variables:                                *)
(*   Spec         one stream generator interleaved with the handlers that  *)
(*                touch the state it uses: /stop, /, /save_gps_location,   *)
(*                /location_logs;                                          *)
(*   SpecStreams  two /video_feed responses streaming at once;             *)
(*   SpecHttp     the handlers of the GPS slot and of the buffer;          *)
(*   SpecIp       get_location_from_ip on every input of its domain.       *)
(*                                                                         *)
(* Timestamps taken from the wall clock (datetime.now()) are left out of   *)
(* the records: no branch of the program reads them.                       *)
(***************************************************************************)
EXTENDS Integers, Sequences, FiniteSets, TLC

VARIABLES
    terminate_flag,  \* app.py:34, the process-wide stop flag
    detection_logs,  \* app.py:37, the event buffer
    gps_location,    \* app.py:38, the GPS slot: None or Some(record)
    frame_count,     \* generate.frame_count: None until the attribute exists
    alive,           \* FALSE once os._exit(0) has run
    pc,              \* position of each stream generator
    cap,             \* state of each generator's capture handle
    det,             \* generate's locals detection_count / confidence_scores
    seen,            \* the value of generate.frame_count read by "+= 1"
    loc,             \* log_detection_with_location's local location_data
    processed,       \* history: detection frames whose counter update ran
    afterStop,       \* history: frames emitted since /stop found the loop streaming
    net,             \* the external HTTP calls made by the last step
    req,             \* the last request a handler served
    resp             \* and its response

vars == <<terminate_flag, detection_logs, gps_location, frame_count, alive,
          pc, cap, det, seen, loc, processed, afterStop, net, req, resp>>

(***************************************************************************)
(* Bounds of the model.                                                    *)
(***************************************************************************)
MaxDet == 1          \* boxes the detector reports in one frame, at most
MaxFrames == 3       \* counter updates explored past the initial count
StopFramesCap == 2   \* afterStop saturates here

(***************************************************************************)
(* Program constants.                                                      *)
(***************************************************************************)
LogEvery == 30       \* app.py:362
MaxLogs == 100       \* app.py:310
EscKey == 27         \* app.py:374

Sessions == {"s1", "s2"}

(***************************************************************************)
(* Python values.  An optional value is None or Some(x); a JSON scalar of  *)
(* a request body is absent (dict.get gives None), a number or a string.   *)
(***************************************************************************)
None == <<>>
Some(x) == <<x>>
IsSome(o) == Len(o) = 1
Val(o) == o[1]

NoneStr == "<None>"

Absent == [k |-> "absent", n |-> 0]
Num(i) == [k |-> "num", n |-> i]
Str == [k |-> "str", n |-> 0]

\* Python truthiness of a scalar: None and 0 are false, a non-empty string true.
Truthy(v) == \/ v.k = "num" /\ v.n # 0
             \/ v.k = "str"

\* format(v, ".0f"): defined for numbers only (TypeError on None, ValueError on str).
FormatRaises(v) == v.k # "num"

(***************************************************************************)
(* External services.  A reply either raises (network error, timeout) or   *)
(* carries a status code and a body: valid JSON with the expected key      *)
(* ("ok"), valid JSON without it ("missing") or no JSON at all             *)
(* ("invalid").  A header or an origin field that holds a comma-separated  *)
(* list is the sequence of its items, so that split(',')[0].strip() is the *)
(* first item.                                                             *)
(***************************************************************************)
Raise == [out |-> "raise", code |-> 0, json |-> "invalid", ips |-> <<>>]
Reply(code, json, ips) == [out |-> "reply", code |-> code, json |-> json, ips |-> ips]

PublicIp == "203.0.113.7"
ProxyIp == "198.51.100.2"
Loopback == {"127.0.0.1", "localhost", "::1"}

Call(svc, arg) == [svc |-> svc, arg |-> arg]
Services(calls) == [i \in 1..Len(calls) |-> calls[i].svc]

\* str.split(',')[0].strip() on a list of items; '' for the empty string
FirstToken(v) == IF Len(v) = 0 THEN "" ELSE v[1]

\* an f-string renders None as the text None
Text(ip) == IF ip = NoneStr THEN "None" ELSE ip

\* app.py:46-50: the first discovery service; raised = the except branch is taken
Ipify(ip_address, r) ==
    IF r.out = "raise" THEN [raised |-> TRUE, ip |-> ip_address]
    ELSE IF r.code # 200 THEN [raised |-> FALSE, ip |-> ip_address]
    ELSE IF r.json = "invalid" THEN [raised |-> TRUE, ip |-> ip_address]
    ELSE IF r.json = "missing" THEN [raised |-> FALSE, ip |-> NoneStr]
    ELSE [raised |-> FALSE, ip |-> FirstToken(r.ips)]

\* app.py:52-58: the alternative discovery service, every exception swallowed
Httpbin(ip_address, r) ==
    IF r.out = "raise" \/ r.code # 200 \/ r.json = "invalid" THEN ip_address
    ELSE IF r.json = "missing" THEN ""
    ELSE FirstToken(r.ips)

\* app.py:64-74: the record built from the geolocation service's JSON
IpRecord(ip_address, json) ==
    [source |-> "IP",
     ip |-> ip_address,
     city |-> IF json = "ok" THEN "Kolkata" ELSE "Unknown",
     region |-> IF json = "ok" THEN "West Bengal" ELSE "Unknown",
     country |-> IF json = "ok" THEN "India" ELSE "Unknown",
     latitude |-> IF json = "ok" THEN Num(22) ELSE Absent,
     longitude |-> IF json = "ok" THEN Num(88) ELSE Absent,
     accuracy |-> [text |-> "City-level (~10km)", n |-> 0]]

\* app.py:41-78.  w.ipify, w.httpbin and w.ipapi are the replies the three
\* services would give; the result is the returned record and the calls made.
GetLocationFromIp(ip_address, w) ==
    LET lb == ip_address \in Loopback
        first == Ipify(ip_address, w.ipify)
        second == lb /\ first.raised
        ip == IF ~lb THEN ip_address
              ELSE IF second THEN Httpbin(ip_address, w.httpbin)
              ELSE first.ip
        calls == (IF lb THEN <<Call("ipify", "")>> ELSE <<>>)
                 \o (IF second THEN <<Call("httpbin", "")>> ELSE <<>>)
                 \o <<Call("ipapi", Text(ip))>>
        r == w.ipapi
    IN  [loc |-> IF r.out = "reply" /\ r.code = 200 /\ r.json # "invalid"
                 THEN Some(IpRecord(ip, r.json))
                 ELSE None,
         calls |-> calls]

\* app.py:81-94: the display name, 'Address not found', or None
GetAddressFromCoords(r) ==
    IF r.out = "reply" /\ r.code = 200 /\ r.json = "ok" THEN "12 Park Street"
    ELSE IF r.out = "reply" /\ r.code = 200 /\ r.json = "missing" THEN "Address not found"
    ELSE NoneStr

\* app.py:99-107
PossibleHeaders ==
    <<"HTTP_X_FORWARDED_FOR", "HTTP_X_REAL_IP", "HTTP_X_FORWARDED",
      "HTTP_X_CLUSTER_CLIENT_IP", "HTTP_FORWARDED_FOR", "HTTP_FORWARDED",
      "REMOTE_ADDR">>

\* app.py:109-115: the first header that is set and is not the loopback name
RECURSIVE HeaderScan(_, _)
HeaderScan(environ, i) ==
    IF i > Len(PossibleHeaders) THEN None
    ELSE LET v == environ[PossibleHeaders[i]]
         IN  IF Len(v) > 0 /\ v # <<"127.0.0.1">> /\ v # <<"localhost">>
             THEN Some(FirstToken(v))
             ELSE HeaderScan(environ, i + 1)

\* app.py:97-129.  r is the reply of the discovery service of line 120.
GetClientIp(environ, r) ==
    LET hit == HeaderScan(environ, 1)
        public_ip == IF r.out = "reply" /\ r.code = 200 /\ r.json # "invalid"
                     THEN (IF r.json = "missing" THEN "" ELSE FirstToken(r.ips))
                     ELSE ""
        remote == environ["REMOTE_ADDR"]
    IN  IF IsSome(hit) THEN [ip |-> Val(hit), calls |-> <<>>]
        ELSE IF public_ip # "" /\ public_ip # "127.0.0.1"
        THEN [ip |-> public_ip, calls |-> <<Call("httpbin", "")>>]
        ELSE [ip |-> IF Len(remote) = 0 THEN "127.0.0.1" ELSE FirstToken(remote),
              calls |-> <<Call("httpbin", "")>>]

\* request.environ with the two headers a client or proxy usually sets
Environ(xff, remote) ==
    [h \in {PossibleHeaders[i] : i \in 1..Len(PossibleHeaders)} |->
        IF h = "HTTP_X_FORWARDED_FOR" THEN xff
        ELSE IF h = "REMOTE_ADDR" THEN remote
        ELSE <<>>]

(***************************************************************************)
(* Detection Logger: log_detection_with_location, app.py:271-311.          *)
(***************************************************************************)
\* w.ctx is request.environ, or None outside a request context (RuntimeError)
ClientIp(client_ip, w) ==
    IF client_ip # NoneStr THEN [ip |-> client_ip, calls |-> <<>>]
    ELSE IF IsSome(w.ctx) THEN GetClientIp(Val(w.ctx), w.probe)
    ELSE [ip |-> "127.0.0.1", calls |-> <<>>]

\* SelectLocation with the two sources tried in the other order
SelectLocationIpFirst(gps, client_ip, w) ==
    LET c == ClientIp(client_ip, w)
        r == GetLocationFromIp(c.ip, w)
    IN  IF IsSome(r.loc) \/ ~IsSome(gps)
        THEN [loc |-> r.loc, calls |-> c.calls \o r.calls]
        ELSE [loc |-> Some([Val(gps) EXCEPT !.source = "GPS"]),
              calls |-> c.calls \o r.calls]

\* app.py:273-289: the GPS slot if it is set, else the caller's IP resolved
SelectLocation(gps, client_ip, w) ==
    IF IsSome(gps)
    THEN [loc |-> Some([Val(gps) EXCEPT !.source = "GPS"]), calls |-> <<>>]
    ELSE LET c == ClientIp(client_ip, w)
             r == GetLocationFromIp(c.ip, w)
         IN  [loc |-> r.loc, calls |-> c.calls \o r.calls]

\* app.py:292-297
LogEntry(d, location_data) ==
    [detection_count |-> d.count,
     confidence_scores |-> d.scores,
     location |-> location_data]

\* app.py:310-311
Trim(logs) == IF Len(logs) > MaxLogs THEN Tail(logs) ELSE logs

(***************************************************************************)
(* What the detector reports for a frame: results[0].boxes, app.py:351-354.*)
(* conf = FALSE stands for boxes.conf being None.                          *)
(***************************************************************************)
NoDet == [count |-> 0, scores |-> <<>>]
Boxes == {[count |-> n, conf |-> c] : n \in 0..MaxDet, c \in BOOLEAN}
Detection(b) == [count |-> b.count,
                 scores |-> IF b.conf THEN [i \in 1..b.count |-> 90] ELSE <<>>]

(***************************************************************************)
(* Frame Stream Loop: generate, app.py:314-381.                            *)
(***************************************************************************)
\* app.py:320-322
PossibleUrls == <<"https://76ee592fbf21.ngrok-free.app/video">>
Selectors == {"camera", "ngrok", "upload.mp4"}
Sources == {"camera", "upload.mp4"} \cup {PossibleUrls[i] : i \in 1..Len(PossibleUrls)}

\* app.py:325-333: the first candidate that opens, 0 if none does
RECURSIVE Probe(_, _)
Probe(reachable, i) ==
    IF i > Len(PossibleUrls) THEN 0
    ELSE IF PossibleUrls[i] \in reachable THEN i
    ELSE Probe(reachable, i + 1)

StreamingPcs == {"loop", "inc", "store", "check", "log", "upload", "yield", "resume"}

Count == IF IsSome(frame_count) THEN Val(frame_count) ELSE 0

\* the buffer and the counter of a process that has logged for a while:
\* MaxLogs + 1 invocations, the buffer full
WarmFrameCount == LogEvery * (MaxLogs + 2) - 2
WarmEntry == LogEntry(Detection([count |-> 1, conf |-> TRUE]),
                      IpRecord(PublicIp, "ok"))
WarmLogs == [i \in 1..MaxLogs |-> WarmEntry]

CountBase == IF Count >= WarmFrameCount THEN WarmFrameCount ELSE 0

\* a request without a body, and the placeholder for "no response"
Empty == [none |-> TRUE]
NoReq == [route |-> "", method |-> "", body |-> Empty]
NoResp == [code |-> 0, body |-> Empty]

\* a step of a generator serves no request
Quiet == req' = NoReq /\ resp' = NoResp

\* GET /video_feed?file=..., app.py:384-388 and 315-339
VideoFeed(s, file_path, reachable) ==
    /\ alive /\ pc[s] = "idle"
    /\ IF file_path = "ngrok"
       THEN IF Probe(reachable, 1) # 0
            THEN cap' = [cap EXCEPT ![s] = "open"] /\ pc' = [pc EXCEPT ![s] = "loop"]
            ELSE cap' = [cap EXCEPT ![s] = "released"] /\ pc' = [pc EXCEPT ![s] = "failed"]
       ELSE /\ cap' = [cap EXCEPT ![s] = IF file_path \in reachable THEN "open" ELSE "unopened"]
            /\ pc' = [pc EXCEPT ![s] = "loop"]
    /\ net' = <<>> /\ Quiet
    /\ UNCHANGED <<terminate_flag, detection_logs, gps_location, frame_count, alive,
                   det, seen, loc, processed, afterStop>>

\* app.py:340-352 and 376-379: the loop test, the read and the inference
ReadFrame(s, success, b) ==
    /\ alive /\ pc[s] = "loop"
    /\ b.count > 0 => Count < CountBase + MaxFrames
    /\ IF cap[s] # "open" \/ ~success
       THEN pc' = [pc EXCEPT ![s] = "release"] /\ det' = det
       ELSE IF b.count > 0
       THEN pc' = [pc EXCEPT ![s] = "inc"] /\ det' = [det EXCEPT ![s] = Detection(b)]
       ELSE pc' = [pc EXCEPT ![s] = "yield"] /\ det' = det
    /\ net' = <<>> /\ Quiet
    /\ UNCHANGED <<terminate_flag, detection_logs, gps_location, frame_count, alive,
                   cap, seen, loc, processed, afterStop>>

\* app.py:357-358: hasattr and the read half of "+= 1"
IncRead(s) ==
    /\ alive /\ pc[s] = "inc"
    /\ seen' = [seen EXCEPT ![s] = frame_count]
    /\ pc' = [pc EXCEPT ![s] = "store"]
    /\ net' = <<>> /\ Quiet
    /\ UNCHANGED <<terminate_flag, detection_logs, gps_location, frame_count, alive,
                   cap, det, loc, processed, afterStop>>

\* app.py:358 and 360: the store half
IncWrite(s) ==
    /\ alive /\ pc[s] = "store"
    /\ frame_count' = Some(IF IsSome(seen[s]) THEN Val(seen[s]) + 1 ELSE 1)
    /\ processed' = processed + 1
    /\ seen' = [seen EXCEPT ![s] = None]
    /\ pc' = [pc EXCEPT ![s] = "check"]
    /\ net' = <<>> /\ Quiet
    /\ UNCHANGED <<terminate_flag, detection_logs, gps_location, alive,
                   cap, det, loc, afterStop>>

\* app.py:362
CheckCount(s) ==
    /\ alive /\ pc[s] = "check"
    /\ IF Count % LogEvery = 0
       THEN pc' = [pc EXCEPT ![s] = "log"] /\ det' = det
       ELSE pc' = [pc EXCEPT ![s] = "yield"] /\ det' = [det EXCEPT ![s] = NoDet]
    /\ net' = <<>> /\ Quiet
    /\ UNCHANGED <<terminate_flag, detection_logs, gps_location, frame_count, alive,
                   cap, seen, loc, processed, afterStop>>

\* LogAppend with the test of line 291 guarding the append alone
LogAppendUnguarded(s, w) ==
    /\ alive /\ pc[s] = "log"
    /\ LET sel == SelectLocation(gps_location, NoneStr, w)
       IN  /\ net' = sel.calls
           /\ loc' = [loc EXCEPT ![s] = sel.loc]
           /\ detection_logs' = IF IsSome(sel.loc)
                                THEN Append(detection_logs, LogEntry(det[s], Val(sel.loc)))
                                ELSE detection_logs
           /\ pc' = [pc EXCEPT ![s] = "upload"]
           /\ det' = det
    /\ Quiet
    /\ UNCHANGED <<terminate_flag, gps_location, frame_count, alive,
                   cap, seen, processed, afterStop>>

\* app.py:363 and 271-298: the call, the choice of a location and the append
LogAppend(s, w) ==
    /\ alive /\ pc[s] = "log"
    /\ LET sel == SelectLocation(gps_location, NoneStr, w)
       IN  /\ net' = sel.calls
           /\ loc' = [loc EXCEPT ![s] = sel.loc]
           /\ IF IsSome(sel.loc)
              THEN /\ detection_logs' = Append(detection_logs, LogEntry(det[s], Val(sel.loc)))
                   /\ pc' = [pc EXCEPT ![s] = "upload"]
                   /\ det' = det
              ELSE /\ detection_logs' = detection_logs
                   /\ pc' = [pc EXCEPT ![s] = "yield"]
                   /\ det' = [det EXCEPT ![s] = NoDet]
    /\ Quiet
    /\ UNCHANGED <<terminate_flag, gps_location, frame_count, alive,
                   cap, seen, processed, afterStop>>

\* app.py:300-311: the upload to the dashboard, then the trim
LogUpload(s) ==
    /\ alive /\ pc[s] = "upload"
    /\ net' = <<Call("dashboard", "")>>
    /\ detection_logs' = Trim(detection_logs)
    /\ loc' = [loc EXCEPT ![s] = None]
    /\ det' = [det EXCEPT ![s] = NoDet]
    /\ pc' = [pc EXCEPT ![s] = "yield"]
    /\ Quiet
    /\ UNCHANGED <<terminate_flag, gps_location, frame_count, alive,
                   cap, seen, processed, afterStop>>

\* app.py:366-373: the annotated frame is handed to the response
EmitFrame(s) ==
    /\ alive /\ pc[s] = "yield"
    /\ pc' = [pc EXCEPT ![s] = "resume"]
    /\ afterStop' = [afterStop EXCEPT ![s] =
                        IF @ < 0 \/ @ >= StopFramesCap THEN @ ELSE @ + 1]
    /\ net' = <<>> /\ Quiet
    /\ UNCHANGED <<terminate_flag, detection_logs, gps_location, frame_count, alive,
                   cap, det, seen, loc, processed>>

\* app.py:374-375: key is what cv2.waitKey(1) returns
CheckTerminate(s, key) ==
    /\ alive /\ pc[s] = "resume"
    /\ pc' = [pc EXCEPT ![s] = IF key = EscKey \/ terminate_flag THEN "release" ELSE "loop"]
    /\ net' = <<>> /\ Quiet
    /\ UNCHANGED <<terminate_flag, detection_logs, gps_location, frame_count, alive,
                   cap, det, seen, loc, processed, afterStop>>

\* Close with the exit taken before the release
CloseWithoutRelease(s) ==
    /\ alive /\ pc[s] = "release"
    /\ alive' = FALSE
    /\ pc' = [pc EXCEPT ![s] = "closed"]
    /\ net' = <<>> /\ Quiet
    /\ UNCHANGED <<terminate_flag, detection_logs, gps_location, frame_count,
                   cap, det, seen, loc, processed, afterStop>>

\* app.py:380-381: cap.release() and os._exit(0)
Close(s) ==
    /\ alive /\ pc[s] = "release"
    /\ cap' = [cap EXCEPT ![s] = "released"]
    /\ alive' = FALSE
    /\ pc' = [pc EXCEPT ![s] = "closed"]
    /\ net' = <<>> /\ Quiet
    /\ UNCHANGED <<terminate_flag, detection_logs, gps_location, frame_count,
                   det, seen, loc, processed, afterStop>>

(***************************************************************************)
(* HTTP Surface.  A handler runs in one step and leaves the request it     *)
(* served and its response in req and resp.                                *)
(***************************************************************************)
Serve(route, method, body, code, answer) ==
    /\ req' = [route |-> route, method |-> method, body |-> body]
    /\ resp' = [code |-> code, body |-> answer]

\* POST /stop, app.py:519-523
Stop ==
    /\ alive
    /\ terminate_flag' = TRUE
    /\ afterStop' = [s \in Sessions |->
                        IF pc[s] \in StreamingPcs /\ afterStop[s] < 0 THEN 0
                        ELSE afterStop[s]]
    /\ net' = <<>>
    /\ Serve("/stop", "POST", Empty, 200, [text |-> "Process has been Terminated"])
    /\ UNCHANGED <<detection_logs, gps_location, frame_count, alive,
                   pc, cap, det, seen, loc, processed>>

\* app.py:458-467: the selector a POST / form stands for
FormFilePath(form) ==
    IF form = "camera" THEN "camera"
    ELSE IF form = "ngrok" THEN "ngrok"
    ELSE IF form = "file" THEN "upload.mp4"
    ELSE NoneStr

\* GET / and POST /, app.py:454-471
Index(method, form) ==
    /\ alive
    /\ IF method = "POST"
       THEN /\ terminate_flag' = terminate_flag
            /\ Serve("/", "POST", [form |-> form], 200,
                     [template |-> "index.html", file_path |-> FormFilePath(form)])
       ELSE /\ terminate_flag' = FALSE
            /\ Serve("/", "GET", [form |-> ""], 200,
                     [template |-> "index.html", file_path |-> NoneStr])
    /\ net' = <<>>
    /\ UNCHANGED <<detection_logs, gps_location, frame_count, alive,
                   pc, cap, det, seen, loc, processed, afterStop>>

\* app.py:422-429
GpsRecord(body, address) ==
    [source |-> "GPS",
     latitude |-> body.latitude,
     longitude |-> body.longitude,
     accuracy |-> IF Truthy(body.accuracy)
                  THEN [text |-> "+- meters", n |-> body.accuracy.n]
                  ELSE [text |-> "Unknown", n |-> 0],
     address |-> address,
     timestamp |-> body.timestamp]

SaveFailed(gps, calls) ==
    [gps |-> gps, code |-> 500, answer |-> [error |-> "Failed to save location"],
     calls |-> calls]

\* SaveOutcome with "or" for the "and" of line 418
SaveOutcomeEitherCoordinate(gps, body, r) ==
    IF body.json = "null" THEN SaveFailed(gps, <<>>)
    ELSE IF Truthy(body.latitude) \/ Truthy(body.longitude)
    THEN LET address == GetAddressFromCoords(r)
         IN  [gps |-> Some(GpsRecord(body, address)),
              code |-> 200,
              answer |-> [status |-> "success",
                          message |-> "GPS location saved",
                          address |-> address],
              calls |-> <<Call("nominatim", "")>>]
    ELSE [gps |-> gps, code |-> 400, answer |-> [error |-> "Invalid coordinates"],
          calls |-> <<>>]

\* app.py:411-443.  body.json = "null" is a body get_json() turns into None;
\* r is the reverse geocoder's reply.
SaveOutcome(gps, body, r) ==
    IF body.json = "null" THEN SaveFailed(gps, <<>>)
    ELSE IF Truthy(body.latitude) /\ Truthy(body.longitude)
    THEN LET address == GetAddressFromCoords(r)
             calls == <<Call("nominatim", "")>>
         IN  IF Truthy(body.accuracy) /\ FormatRaises(body.accuracy)
             THEN SaveFailed(gps, calls)
             ELSE IF FormatRaises(body.accuracy)
             THEN SaveFailed(Some(GpsRecord(body, address)), calls)
             ELSE [gps |-> Some(GpsRecord(body, address)),
                   code |-> 200,
                   answer |-> [status |-> "success",
                               message |-> "GPS location saved",
                               address |-> address],
                   calls |-> calls]
    ELSE [gps |-> gps, code |-> 400, answer |-> [error |-> "Invalid coordinates"],
          calls |-> <<>>]

\* POST /save_gps_location, app.py:408-443
SaveGpsLocation(body, r) ==
    /\ alive
    /\ LET o == SaveOutcome(gps_location, body, r)
       IN  /\ gps_location' = o.gps
           /\ net' = o.calls
           /\ Serve("/save_gps_location", "POST", body, o.code, o.answer)
    /\ UNCHANGED <<terminate_flag, detection_logs, frame_count, alive,
                   pc, cap, det, seen, loc, processed, afterStop>>

\* app.py:398-405: the body of the answer and the calls made
CurrentLocationOutcome(gps, w) ==
    IF IsSome(gps) THEN [answer |-> Val(gps), calls |-> <<>>]
    ELSE LET c == GetClientIp(Val(w.ctx), w.probe)
             r == GetLocationFromIp(c.ip, w)
         IN  [answer |-> IF IsSome(r.loc) THEN Val(r.loc)
                         ELSE [error |-> "Location not found"],
              calls |-> c.calls \o r.calls]

\* GET /current_location, app.py:396-405
CurrentLocation(w) ==
    /\ alive /\ IsSome(w.ctx)
    /\ LET o == CurrentLocationOutcome(gps_location, w)
       IN  /\ net' = o.calls
           /\ Serve("/current_location", "GET", Empty, 200, o.answer)
    /\ UNCHANGED <<terminate_flag, detection_logs, gps_location, frame_count, alive,
                   pc, cap, det, seen, loc, processed, afterStop>>

\* GET /gps_status, app.py:446-451
GpsStatus ==
    /\ alive
    /\ net' = <<>>
    /\ Serve("/gps_status", "GET", Empty, 200,
             [has_gps |-> gps_location # None, location |-> gps_location])
    /\ UNCHANGED <<terminate_flag, detection_logs, gps_location, frame_count, alive,
                   pc, cap, det, seen, loc, processed, afterStop>>

\* GET /location_logs, app.py:391-393
LocationLogs ==
    /\ alive
    /\ net' = <<>>
    /\ Serve("/location_logs", "GET", Empty, 200, [json |-> detection_logs])
    /\ UNCHANGED <<terminate_flag, detection_logs, gps_location, frame_count, alive,
                   pc, cap, det, seen, loc, processed, afterStop>>

\* app.py:204-268: the details of the dashboard's answer, or None.  r.details
\* lists the keys of the details object; json = "missing" is an answer
\* without a details field.
BatchUpload(logs, r) ==
    IF r.out = "reply" /\ r.code = 200 /\ r.json # "invalid"
    THEN Some(IF r.json = "missing" THEN <<>> ELSE r.details)
    ELSE None

\* "if result:" on None or a dict
DictTruthy(result) == IsSome(result) /\ Len(Val(result)) > 0

\* POST /sync_to_firebase, app.py:474-494
SyncToFirebase(r) ==
    /\ alive
    /\ IF Len(detection_logs) = 0
       THEN /\ net' = <<>>
            /\ Serve("/sync_to_firebase", "POST", [dashboard |-> r], 400,
                     [error |-> "No detections to sync"])
       ELSE LET result == BatchUpload(detection_logs, r)
            IN  /\ net' = <<Call("dashboard", "")>>
                /\ IF DictTruthy(result)
                   THEN Serve("/sync_to_firebase", "POST", [dashboard |-> r], 200,
                              [success |-> TRUE,
                               message |-> "Detections synced to Firebase",
                               details |-> Val(result)])
                   ELSE Serve("/sync_to_firebase", "POST", [dashboard |-> r], 500,
                              [success |-> FALSE, error |-> "Failed to sync detections"])
    /\ UNCHANGED <<terminate_flag, detection_logs, gps_location, frame_count, alive,
                   pc, cap, det, seen, loc, processed, afterStop>>

(***************************************************************************)
(* Inputs.                                                                 *)
(***************************************************************************)
Statuses == {200, 503}
Jsons == {"ok", "missing", "invalid"}

IpifyReplies == {Raise} \cup {Reply(c, j, <<PublicIp>>) : c \in Statuses, j \in Jsons}
HttpbinReplies == {Raise} \cup {Reply(c, j, <<PublicIp, ProxyIp>>) : c \in Statuses, j \in Jsons}
PlainReplies == {Raise} \cup {Reply(c, j, <<>>) : c \in Statuses, j \in Jsons}

World(ctx, probe, ipify, httpbin, ipapi) ==
    [ctx |-> ctx, probe |-> probe, ipify |-> ipify, httpbin |-> httpbin, ipapi |-> ipapi]

Ok(ips) == Reply(200, "ok", ips)

\* the surroundings of a log call made by a generator
LogWorlds ==
    {World(None, Raise, Ok(<<PublicIp>>), Raise, Ok(<<>>)),
     World(None, Raise, Raise, Ok(<<PublicIp, ProxyIp>>), Reply(200, "missing", <<>>)),
     World(None, Raise, Reply(503, "ok", <<>>), Raise, Reply(503, "ok", <<>>)),
     World(Some(Environ(<<ProxyIp, PublicIp>>, <<"127.0.0.1">>)), Raise, Raise, Raise, Raise)}

\* the surroundings of GET /current_location
RequestWorlds ==
    {World(Some(Environ(x, <<"127.0.0.1">>)), p, i, Raise, g) :
        x \in {<<>>, <<ProxyIp, PublicIp>>},
        p \in {Raise, Ok(<<PublicIp>>)},
        i \in {Raise, Ok(<<PublicIp>>)},
        g \in {Raise, Ok(<<>>)}}

Latitudes == {Absent, Num(0), Num(22)}
Longitudes == {Absent, Num(0), Num(88)}
Accuracies == {Absent, Num(0), Num(15), Str}
Timestamps == {Absent, Num(1700)}

Body(lat, lon, acc, ts) ==
    [json |-> "object", latitude |-> lat, longitude |-> lon,
     accuracy |-> acc, timestamp |-> ts]
NullBody == [json |-> "null", latitude |-> Absent, longitude |-> Absent,
             accuracy |-> Absent, timestamp |-> Absent]
Bodies == {NullBody} \cup
          {Body(lat, lon, acc, ts) : lat \in Latitudes, lon \in Longitudes,
                                     acc \in Accuracies, ts \in Timestamps}

\* the fixes a phone pushes while a stream runs
StreamFixes == {Body(Num(22), Num(88), Num(15), Num(1700)),
                Body(Num(-33), Num(88), Num(15), Num(1700))}

DashboardReplies ==
    {[out |-> "raise", code |-> 0, json |-> "invalid", details |-> <<>>]} \cup
    {[out |-> "reply", code |-> c, json |-> j, details |-> d] :
        c \in Statuses, j \in Jsons, d \in {<<>>, <<"uploaded">>}}

(***************************************************************************)
(* Spec: the generators and the handlers that write what they read.        *)
(***************************************************************************)
Idle ==
    /\ terminate_flag = FALSE
    /\ gps_location = None
    /\ alive = TRUE
    /\ pc = [s \in Sessions |-> "idle"]
    /\ cap = [s \in Sessions |-> "none"]
    /\ det = [s \in Sessions |-> NoDet]
    /\ seen = [s \in Sessions |-> None]
    /\ loc = [s \in Sessions |-> None]
    /\ afterStop = [s \in Sessions |-> -1]
    /\ net = <<>>
    /\ resp = NoResp

\* a fresh process, or one that has streamed and logged for a while
Init ==
    /\ Idle
    /\ req = NoReq
    /\ \/ frame_count = None /\ processed = 0 /\ detection_logs = <<>>
       \/ frame_count = Some(WarmFrameCount) /\ processed = WarmFrameCount
          /\ detection_logs = WarmLogs

Stream(s) ==
    \/ \E f \in Selectors, reachable \in SUBSET Sources : VideoFeed(s, f, reachable)
    \/ \E success \in BOOLEAN, b \in Boxes : ReadFrame(s, success, b)
    \/ IncRead(s)
    \/ IncWrite(s)
    \/ CheckCount(s)
    \/ \E w \in LogWorlds : LogAppend(s, w)
    \/ LogUpload(s)
    \/ EmitFrame(s)
    \/ \E key \in {-1, EscKey} : CheckTerminate(s, key)
    \/ Close(s)

\* One generator and the requests that arrive while it runs.
Next ==
    \/ \E s \in {"s1"} : Stream(s)
    \/ Stop
    \/ \E method \in {"GET", "POST"}, form \in {"camera", "none"} : Index(method, form)
    \/ \E body \in StreamFixes : SaveGpsLocation(body, Ok(<<>>))
    \/ LocationLogs

Spec == Init /\ [][Next]_vars

(***************************************************************************)
(* SpecStreams: two /video_feed responses served at once, each by its own  *)
(* thread, sharing generate.frame_count and detection_logs.                *)
(***************************************************************************)
NextStreams == \E s \in Sessions : Stream(s)

SpecStreams == Init /\ [][NextStreams]_vars

(***************************************************************************)
(* SpecHttp: the handlers of the GPS slot and of the buffer.  The process  *)
(* is fresh, or its generator is suspended at the yield after n events     *)
(* were logged.                                                            *)
(***************************************************************************)
GpsEntry == LogEntry(Detection([count |-> 1, conf |-> TRUE]),
                     GpsRecord(Body(Num(22), Num(88), Num(15), Num(1700)),
                               "12 Park Street"))

InitHttp ==
    /\ detection_logs \in {<<>>, <<WarmEntry, GpsEntry>>}
    /\ terminate_flag = FALSE
    /\ gps_location = None
    /\ alive = TRUE
    /\ cap = [s \in Sessions |-> IF s = "s1" /\ Len(detection_logs) > 0
                                 THEN "open" ELSE "none"]
    /\ pc = [s \in Sessions |-> IF s = "s1" /\ Len(detection_logs) > 0
                                THEN "resume" ELSE "idle"]
    /\ det = [s \in Sessions |-> NoDet]
    /\ seen = [s \in Sessions |-> None]
    /\ loc = [s \in Sessions |-> None]
    /\ afterStop = [s \in Sessions |-> -1]
    /\ net = <<>>
    /\ req = NoReq
    /\ resp = NoResp
    /\ frame_count = IF Len(detection_logs) = 0 THEN None
                     ELSE Some(LogEvery * Len(detection_logs))
    /\ processed = LogEvery * Len(detection_logs)

NextHttp ==
    \/ \E body \in Bodies, r \in {Raise, Ok(<<>>), Reply(200, "missing", <<>>)} :
          SaveGpsLocation(body, r)
    \/ \E w \in RequestWorlds : CurrentLocation(w)
    \/ GpsStatus
    \/ LocationLogs
    \/ \E r \in DashboardReplies : SyncToFirebase(r)

SpecHttp == InitHttp /\ [][NextHttp]_vars

(***************************************************************************)
(* SpecIp: get_location_from_ip on every address and every combination of  *)
(* replies of the three services.                                          *)
(***************************************************************************)
IpInputs == Loopback \cup {PublicIp, ProxyIp}
IpWorlds == {World(None, Raise, i, h, g) :
                i \in IpifyReplies, h \in HttpbinReplies, g \in PlainReplies}

InitIp ==
    /\ Idle
    /\ frame_count = None /\ processed = 0 /\ detection_logs = <<>>
    /\ \E ip \in IpInputs, w \in IpWorlds :
          req = [route |-> "get_location_from_ip", method |-> "",
                 body |-> [ip_address |-> ip, w |-> w]]

\* the call returns: resp holds the returned value, net the calls it made
ResolveIp ==
    /\ req.route = "get_location_from_ip" /\ resp = NoResp
    /\ LET r == GetLocationFromIp(req.body.ip_address, req.body.w)
       IN  /\ resp' = [code |-> 0, body |-> [returned |-> r.loc]]
           /\ net' = r.calls
    /\ UNCHANGED <<terminate_flag, detection_logs, gps_location, frame_count, alive,
                   pc, cap, det, seen, loc, processed, afterStop, req>>

NextIp == ResolveIp

SpecIp == InitIp /\ [][NextIp]_vars

(***************************************************************************)
(* Claims.                                                                 *)
(***************************************************************************)

\* C1: in every reachable state, and in every answer of GET /location_logs,
\* the event buffer holds at most 100 entries.
C1_BufferAtMost100 ==
    /\ Len(detection_logs) <= MaxLogs
    /\ req.route = "/location_logs" => Len(resp.body.json) <= MaxLogs

\* C2: the loop calls log_detection_with_location for a frame exactly when
\* the frame has a detection and the number of such frames the process has
\* handled so far is a multiple of 30; a frame without detections leaves
\* the counter alone and is never logged.
C2_LogExactlyOnMultiples ==
    [][\A s \in Sessions :
          /\ (pc[s] = "check" /\ pc'[s] # "check")
                => ((pc'[s] = "log") <=> (processed % LogEvery = 0))
          /\ (pc[s] # "log" /\ pc'[s] = "log") => pc[s] = "check"
          /\ (pc[s] = "loop" /\ pc'[s] = "yield") => frame_count' = frame_count]_vars

\* C3: after POST /stop has found a loop streaming, that loop emits at most
\* one more frame, whatever other requests arrive.
C3_AtMostOneFrameAfterStop == \A s \in Sessions : afterStop[s] <= 1

\* C4 as claimed: a loop that has ended, closed or failed, has released its
\* capture handle and has terminated the process.
C4_EveryExitTerminates ==
    \A s \in Sessions :
        pc[s] \in {"closed", "failed"} => cap[s] = "released" /\ ~alive

\* C4 as amended: every way out of Streaming leads to the release of the
\* handle followed by the exit of the process; when no candidate URL of the
\* remote alias opens, the handles are released and the generator returns
\* with the process still running.
C4_ExitPaths ==
    [][\A s \in Sessions :
          /\ (pc[s] \in StreamingPcs /\ pc'[s] \notin StreamingPcs)
                => pc'[s] = "release"
          /\ (pc[s] = "release" /\ pc'[s] # "release")
                => pc'[s] = "closed" /\ cap'[s] = "released" /\ ~alive'
          /\ (pc[s] = "idle" /\ pc'[s] # "idle")
                => \/ pc'[s] = "loop" /\ cap'[s] \in {"open", "unopened"}
                   \/ pc'[s] = "failed" /\ cap'[s] = "released" /\ alive'
          /\ (pc[s] = "loop" /\ cap[s] # "open" /\ pc'[s] # "loop")
                => pc'[s] = "release"]_vars

C4_Witness == \E s \in Sessions : pc[s] = "failed" /\ cap[s] = "released" /\ alive

\* C5: a POST /save_gps_location whose latitude and longitude are numbers
\* (0 included; accuracy a number or absent) is answered 200 "success", and
\* GET /current_location then answers source GPS with the same coordinates.
C5_ValidFixIsStored ==
    (/\ req.route = "/save_gps_location"
     /\ req.body.json = "object"
     /\ req.body.latitude.k = "num" /\ req.body.longitude.k = "num"
     /\ req.body.accuracy.k \in {"absent", "num"})
    => /\ resp.code = 200
       /\ resp.body.status = "success"
       /\ IsSome(gps_location)
       /\ \A w \in RequestWorlds :
             LET a == CurrentLocationOutcome(gps_location, w).answer
             IN  /\ a.source = "GPS"
                 /\ a.latitude = req.body.latitude
                 /\ a.longitude = req.body.longitude

\* C6: POST /sync_to_firebase answers 400 exactly when the buffer is empty,
\* 200 with a details object whenever the dashboard answered 200 (whatever
\* its details), and 500 only when forwarding failed.
C6_SyncStatus ==
    req.route = "/sync_to_firebase" =>
        LET r == req.body.dashboard
            answered == r.out = "reply" /\ r.code = 200 /\ r.json # "invalid"
        IN  /\ (resp.code = 400) <=> (Len(detection_logs) = 0)
            /\ (Len(detection_logs) > 0 /\ answered)
                  => resp.code = 200 /\ "details" \in DOMAIN resp.body
            /\ resp.code = 500 => ~answered

\* C7: a log call that finds the GPS slot set appends an event located at the
\* slot's coordinates with source GPS, makes no IP lookup, gives the same
\* result for every client_ip argument, and leaves the slot as it was.
ClientIpArgs == {NoneStr, "127.0.0.1", PublicIp}

C7_GpsPreferred ==
    [][\A s \in Sessions :
          /\ (pc[s] = "log" /\ pc'[s] # "log" /\ IsSome(gps_location))
                => /\ pc'[s] = "upload"
                   /\ Len(detection_logs') = Len(detection_logs) + 1
                   /\ LET e == detection_logs'[Len(detection_logs')]
                      IN  /\ e.location.source = "GPS"
                          /\ e.location.latitude = Val(gps_location).latitude
                          /\ e.location.longitude = Val(gps_location).longitude
                   /\ net' = <<>>
                   /\ gps_location' = gps_location
                   /\ \A ip \in ClientIpArgs, w \in LogWorlds :
                         SelectLocation(gps_location, ip, w).loc = loc'[s]
          /\ (pc[s] = "upload" /\ pc'[s] # "upload")
                => gps_location' = gps_location]_vars

C7_Witness ==
    \E s \in Sessions :
        /\ pc[s] = "upload" /\ IsSome(loc[s]) /\ Val(loc[s]).source = "GPS"
        /\ IsSome(gps_location)
        /\ Val(loc[s]).latitude = Num(-33)
        /\ detection_logs[Len(detection_logs)].location = Val(loc[s])

\* C8: a log call made with no GPS fix whose IP resolution returns nothing
\* leaves the buffer unchanged and returns without an upload.
C8_UnresolvedIsDropped ==
    [][\A s \in Sessions :
          (pc[s] = "log" /\ pc'[s] # "log" /\ gps_location = None /\ loc'[s] = None)
             => /\ detection_logs' = detection_logs
                /\ pc'[s] = "yield"
                /\ \A i \in 1..Len(net') : net'[i].svc # "dashboard"]_vars

C8_Witness ==
    \E s \in Sessions :
        /\ pc[s] = "yield" /\ gps_location = None /\ loc[s] = None
        /\ Len(net) > 0 /\ net[Len(net)].svc = "ipapi"
        /\ Len(detection_logs) = MaxLogs

\* C9: for a loopback address the first discovery call comes before the
\* geolocation call and the second discovery call is made whenever the first
\* raised or answered a status other than 200; for any other address no
\* discovery call is made; a failed geolocation call gives None.
C9_DiscoveryThenGeolocation ==
    resp # NoResp =>
        LET ip == req.body.ip_address
            w == req.body.w
            svcs == Services(net)
        IN  /\ ip \in Loopback
                 => /\ svcs[1] = "ipify" /\ svcs[Len(svcs)] = "ipapi"
                    /\ (w.ipify.out = "raise" \/ w.ipify.code # 200)
                          => \E i \in 1..Len(svcs) : svcs[i] = "httpbin"
            /\ ip \notin Loopback => svcs = <<"ipapi">>
            /\ (w.ipapi.out = "raise" \/ w.ipapi.code # 200)
                  => resp.body.returned = None

\* C10: a POST /save_gps_location whose JSON object lacks latitude or
\* longitude is answered 400 with an error field and leaves the GPS slot as
\* it was.
C10_MissingCoordinates ==
    [][(/\ req'.route = "/save_gps_location"
        /\ req'.body.json = "object"
        /\ (req'.body.latitude.k = "absent" \/ req'.body.longitude.k = "absent"))
       => /\ resp'.code = 400
          /\ "error" \in DOMAIN resp'.body
          /\ gps_location' = gps_location]_vars

C10_Witness ==
    /\ req.route = "/save_gps_location"
    /\ req.body.json = "object"
    /\ req.body.latitude.k = "absent" /\ req.body.longitude.k = "absent"
    /\ resp.code = 400
    /\ IsSome(gps_location)

\* C11: a POST /save_gps_location that is answered 500 leaves the
\* process-wide GPS slot exactly as it was before the request, so a later
\* GET /gps_status and later log calls see the earlier fix.
C11_FailedSaveKeepsSlot ==
    [][(/\ req'.route = "/save_gps_location"
        /\ resp'.code = 500)
       => gps_location' = gps_location]_vars

====
